---- MODULE Spec2Model ----
(***************************************************************************)
(* Model of scripts/visa_scraper.py: the VisaScraper pipeline              *)
(* (scrape_all_countries -> scrape_country -> manual_extraction /          *)
(* combine_country_data -> create_brief_eligibility) and its pure          *)
(* functions called on their own.                                          *)
(*                                                                         *)
(* Python values.  A dict is a function from its keys (strings) to values; *)
(* a key that is absent is not in the DOMAIN.  A str is a TLA+ string, a   *)
(* list a sequence, a bool a BOOLEAN.  A number-or-None slot holds a       *)
(* tagged value PyInt(n) or None.  A call returns its value or             *)
(* Raised(exception).                                                      *)
(*                                                                         *)
(* Left out of the record built by combine_country_data: slug and          *)
(* scraped_at (string case mapping and the wall clock); no extraction      *)
(* feeds them.                                                             *)
(***************************************************************************)
EXTENDS Integers, Sequences, FiniteSets, TLC

VARIABLES
    entry,           \* the entry point this run took
    pc,              \* position of the single task
    countries_data,  \* self.countries_data, as a sequence in key order
    country_idx,     \* position of scrape_all_countries' for loop
    url_idx,         \* position of scrape_country's for loop
    all_data,        \* scrape_country's accumulator of extractions
    all_results,     \* scrape_all_countries' mapping key -> entry
    visa_data_json,  \* contents of visa_data.json
    args,            \* arguments of a function called on its own
    result,          \* value returned (or exception raised) by that call
    last_outcome,    \* history: what crawler.arun gave for the last URL
    fetched_ok,      \* history: keys with a URL whose fetch succeeded
    contributed,     \* history: key -> URLs that added an extraction, in order
    succeeded,       \* history: keys for which scrape_country returned an entry
    processed,       \* history: keys in the order their processing began
    slept            \* history: asyncio.sleep ran since the last country ended

vars == <<entry, pc, countries_data, country_idx, url_idx, all_data,
          all_results, visa_data_json, args, result, last_outcome,
          fetched_ok, contributed, succeeded, processed, slept>>

-----------------------------------------------------------------------------
(* Bounds *)

MaxCountries == 2     \* countries of the registry that are kept
MaxData == 2          \* extractions handed to combine_country_data on its own
MaxCriteria == 3      \* entries of eligibility_criteria
MaxTokens == 2        \* tokens of a page handed to manual_extraction on its own

-----------------------------------------------------------------------------
(* Python values *)

None == [py |-> "None"]
PyInt(n) == [py |-> "int", v |-> n]
Raised(e) == [exception |-> e]
IsRaised(r) == DOMAIN r = {"exception"}
NotWritten == [file |-> "absent"]

Get(d, k, default) == IF k \in DOMAIN d THEN d[k] ELSE default

SetItem(d, k, v) == [x \in DOMAIN d \cup {k} |-> IF x = k THEN v ELSE d[x]]

Take(s, n) == SubSeq(s, 1, IF Len(s) < n THEN Len(s) ELSE n)

RECURSIVE Join(_, _)
Join(sep, s) ==
    IF s = <<>> THEN ""
    ELSE IF Len(s) = 1 THEN s[1]
    ELSE s[1] \o sep \o Join(sep, Tail(s))

RECURSIVE Digits(_)
Digits(n) == IF n < 10 THEN 1 ELSE 1 + Digits(n \div 10)

RECURSIVE SumLen(_)
SumLen(s) == IF s = <<>> THEN 0 ELSE Len(s[1]) + 2 + SumLen(Tail(s))

\* len(repr(v)) for the value kept under key k
ReprLen(k, v) ==
    IF k \in {"eligibility_criteria", "application_process", "official_links"}
    THEN IF v = <<>> THEN 2 ELSE 2 + SumLen(v) + 2 * (Len(v) - 1)
    ELSE IF k = "min_monthly_income"
    THEN IF v = None THEN 4 ELSE Digits(v.v)
    ELSE IF k = "path_to_residency"
    THEN IF v THEN 4 ELSE 5
    ELSE Len(v) + 2

RECURSIVE ItemsLen(_, _)
ItemsLen(d, keys) ==
    IF keys = {} THEN 0
    ELSE LET k == CHOOSE x \in keys : TRUE
         IN  Len(k) + 2 + 2 + ReprLen(k, d[k]) + ItemsLen(d, keys \ {k})

\* len(str(x)) of a dict x
StrLen(x) ==
    IF DOMAIN x = {} THEN 2
    ELSE 2 + ItemsLen(x, DOMAIN x) + 2 * (Cardinality(DOMAIN x) - 1)

-----------------------------------------------------------------------------
(* manual_extraction.  The page text is a sequence of whitespace-separated *)
(* tokens: a number [num |-> groups] written as comma-separated groups of  *)
(* digits, or a word [word |-> w].                                         *)

Num(groups) == [num |-> groups]
Word(w) == [word |-> w]
IsNum(t) == DOMAIN t = {"num"}
IsWord(t) == DOMAIN t = {"word"}

\* str.lower() on the words of the vocabulary
Lower(w) ==
    CASE w = "EUR" -> "eur"
      [] w = "Income" -> "income"
      [] w = "Remote work" -> "remote work"
      [] OTHER -> w

\* (?:EUR|€|euros?|dollars?|\$), matched with re.IGNORECASE
CurrencyWords == {"eur", "€", "euro", "euros", "dollar", "dollars", "$"}

\* (?:year|month)s?, matched with re.IGNORECASE
PeriodWords == {"year", "years", "month", "months"}

DigitChar == <<"0", "1", "2", "3", "4", "5", "6", "7", "8", "9">>

RECURSIVE DigitStr(_)
DigitStr(ds) == IF ds = <<>> THEN "" ELSE DigitChar[ds[1] + 1] \o DigitStr(Tail(ds))

\* income_match.group(1).replace(',', '')
RECURSIVE StripCommas(_)
StripCommas(groups) ==
    IF groups = <<>> THEN <<>> ELSE groups[1] \o StripCommas(Tail(groups))

\* int(income_str)
RECURSIVE IntOf(_)
IntOf(ds) == IF ds = <<>> THEN 0 ELSE 10 * IntOf(SubSeq(ds, 1, Len(ds) - 1)) + ds[Len(ds)]

\* re.search: positions where a number is followed by an accepted word
Matches(markdown_content, accepted) ==
    {i \in 1..(Len(markdown_content) - 1) :
        /\ IsNum(markdown_content[i])
        /\ IsWord(markdown_content[i + 1])
        /\ Lower(markdown_content[i + 1].word) \in accepted}

Min(S) == CHOOSE x \in S : \A y \in S : x <= y

Contains(markdown_content, keyword) ==
    \E i \in 1..Len(markdown_content) :
        IsWord(markdown_content[i]) /\ Lower(markdown_content[i].word) = keyword

manual_extraction(markdown_content, source_url) ==
    LET income_match == Matches(markdown_content, CurrencyWords)
        min_income ==
            IF income_match # {}
            THEN PyInt(IntOf(StripCommas(markdown_content[Min(income_match)].num)))
            ELSE None
        duration_match == Matches(markdown_content, PeriodWords)
        duration ==
            IF duration_match # {}
            THEN LET i == Min(duration_match)
                     groups == markdown_content[i].num
                 IN  DigitStr(groups[Len(groups)]) \o " " \o markdown_content[i + 1].word
            ELSE "Not specified"
        eligibility ==
            (IF Contains(markdown_content, "remote work")
             THEN <<"Must work remotely for employer outside the country">> ELSE <<>>)
            \o (IF Contains(markdown_content, "income")
                THEN <<"Proof of sufficient income required">> ELSE <<>>)
            \o (IF Contains(markdown_content, "insurance")
                THEN <<"Health insurance required">> ELSE <<>>)
    IN  [visa_name |-> "Digital Nomad Visa",
         min_monthly_income |-> min_income,
         eligibility_criteria |->
             IF eligibility # <<>> THEN eligibility
             ELSE <<"Check official source for requirements">>,
         application_process |-> <<"Check official source for application steps">>,
         visa_duration |-> duration,
         source_url |-> source_url,
         extraction_method |-> "manual"]

-----------------------------------------------------------------------------
(* create_brief_eligibility *)

DefaultBrief == "Remote work visa for digital nomads"

\* takes three entries where the code takes two
create_brief_eligibility_three(data) ==
    LET criteria == Get(data, "eligibility_criteria", <<>>)
        brief_points == Take(criteria, 3)
    IN  IF criteria = <<>> THEN DefaultBrief
        ELSE IF brief_points # <<>> THEN Join(". ", brief_points) \o "."
        ELSE DefaultBrief

create_brief_eligibility(data) ==
    LET criteria == Get(data, "eligibility_criteria", <<>>)
        brief_points == Take(criteria, 2)
    IN  IF criteria = <<>> THEN DefaultBrief
        ELSE IF brief_points # <<>> THEN Join(". ", brief_points) \o "."
        ELSE DefaultBrief

-----------------------------------------------------------------------------
(* combine_country_data *)

\* takes the first extraction whatever its length
BestIndexFirst(scraped_data) == 1

\* max(scraped_data, key=lambda x: len(str(x))): the first of the longest
BestIndex(scraped_data) ==
    LET best[i \in 1..Len(scraped_data)] ==
            IF i = 1 THEN 1
            ELSE IF StrLen(scraped_data[i]) > StrLen(scraped_data[best[i - 1]])
                 THEN i ELSE best[i - 1]
    IN  best[Len(scraped_data)]

\* best_data.get("official_links", [best_data.get("source_url", "")])
OfficialLinks(best_data) ==
    Get(best_data, "official_links", <<Get(best_data, "source_url", "")>>)

\* drops a URL that is already listed
AllSourcesDeduplicated(scraped_data) ==
    LET F[i \in 0..Len(scraped_data)] ==
            IF i = 0 THEN <<>>
            ELSE IF /\ Get(scraped_data[i], "source_url", "") # ""
                    /\ \A j \in 1..Len(F[i - 1]) :
                          F[i - 1][j] # scraped_data[i]["source_url"]
                 THEN Append(F[i - 1], scraped_data[i]["source_url"])
                 ELSE F[i - 1]
    IN  F[Len(scraped_data)]

\* [item.get("source_url") for item in scraped_data if item.get("source_url")]
AllSources(scraped_data) ==
    LET F[i \in 0..Len(scraped_data)] ==
            IF i = 0 THEN <<>>
            ELSE IF Get(scraped_data[i], "source_url", "") # ""
                 THEN Append(F[i - 1], scraped_data[i]["source_url"])
                 ELSE F[i - 1]
    IN  F[Len(scraped_data)]

\* lines 181-196, with best_data already chosen
SanityEntry(country_info, best_data, scraped_data) ==
    LET links == OfficialLinks(best_data)
    IN  IF links = <<>> THEN Raised("IndexError")   \* [][0]
        ELSE [countryName |-> country_info.name,
              visaName |-> Get(best_data, "visa_name",
                               country_info.name \o " Digital Nomad Visa"),
              minMonthlyIncome |-> Get(best_data, "min_monthly_income", PyInt(0)),
              briefEligibility |-> create_brief_eligibility(best_data),
              fullEligibility |-> Get(best_data, "eligibility_criteria", <<>>),
              applicationProcess |-> Get(best_data, "application_process", <<>>),
              officialLink |-> links[1],
              visaDuration |-> Get(best_data, "visa_duration", "Check official source"),
              pathToResidency |-> Get(best_data, "path_to_residency", FALSE),
              latitude |-> country_info.coordinates.latitude,
              longitude |-> country_info.coordinates.longitude,
              all_sources |-> AllSources(scraped_data)]

combine_country_data(country_info, scraped_data) ==
    IF scraped_data = <<>> THEN Raised("ValueError")   \* max() of an empty list
    ELSE CHOOSE sanity_entry \in
             {SanityEntry(country_info, best_data, scraped_data) :
                 best_data \in {scraped_data[BestIndex(scraped_data)]}} : TRUE

-----------------------------------------------------------------------------
(* The registry built by __init__, cut to the model's bounds: the first n  *)
(* countries, each with one or two URLs as in the source (stand-in         *)
(* addresses).                                                             *)

CountryKeys == <<"spain", "portugal", "mexico", "croatia", "italy">>
CountryNames == <<"Spain", "Portugal", "Mexico", "Croatia", "Italy">>
Latitudes == <<"40.4168", "38.7223", "23.6345", "45.1000", "41.8719">>
Longitudes == <<"-3.7038", "-9.1393", "-102.5528", "15.2000", "12.5674">>
UrlPool == <<"https://gov/1", "https://gov/2">>

CountryInfo(i, k) ==
    [key |-> CountryKeys[i],
     name |-> CountryNames[i],
     urls |-> SubSeq(UrlPool, 1, k),
     coordinates |-> [latitude |-> Latitudes[i], longitude |-> Longitudes[i]]]

Registries ==
    {[i \in 1..n |-> CountryInfo(i, k)] : n \in 1..MaxCountries, k \in 1..Len(UrlPool)}

-----------------------------------------------------------------------------
(* What the collaborators can hand back *)

SeqsUpTo(S, n) == UNION {[1..m -> S] : m \in 0..n}

Opt(k, vals) == {<<>>} \cup {k :> v : v \in vals}

\* the schema's required fields only
Required ==
    [visa_name |-> "Nomad Visa",
     eligibility_criteria |-> <<"A", "B", "C">>,
     application_process |-> <<"S">>]

\* objects the extraction service answers with
JsonObjects ==
    {Required,
     Required @@ [official_links |-> <<>>],
     Required @@ [official_links |-> <<"L", "M">>, min_monthly_income |-> PyInt(1200)]}

\* result.extracted_content, by what json.loads makes of it
EmptyContent == [kind |-> "empty"]
InvalidJson == [kind |-> "invalid"]
JsonArray == [kind |-> "array"]
JsonObject(o) == [kind |-> "object", value |-> o]
Contents == {EmptyContent, InvalidJson, JsonArray} \cup {JsonObject(o) : o \in JsonObjects}

\* a dict for an object; any other JSON value (an array here) is no dict, and
\* the item assignment of line 110 raises TypeError on it
json_loads(content) ==
    CASE content.kind = "invalid" -> Raised("JSONDecodeError")
      [] content.kind = "object" -> [type |-> "dict", value |-> content.value]
      [] OTHER -> [type |-> "list"]

\* result.markdown of the pages fetched
PageTexts ==
    {<<Word("visa")>>,
     <<Num(<<<<1>>, <<2, 3, 4>>>>), Word("EUR")>>}

\* what `await crawler.arun(...)` does: raises, or returns a result
ArunRaises == [raises |-> TRUE]
ArunResults ==
    {[raises |-> FALSE, success |-> FALSE, extracted_content |-> EmptyContent,
      markdown |-> <<>>]}
    \cup {[raises |-> FALSE, success |-> TRUE, extracted_content |-> c, markdown |-> m] :
            c \in Contents, m \in PageTexts}
Outcomes == {ArunRaises} \cup ArunResults

\* inputs of the functions called on their own
Tokens ==
    {Num(<<<<1>>, <<2, 3, 4>>>>), Num(<<<<1, 2>>>>), Word("EUR"), Word("months"),
     Word("Income"), Word("insurance"), Word("Remote work"), Word("visa")}
Markdowns == SeqsUpTo(Tokens, MaxTokens)

Profiles ==
    {<<>>,
     [visa_name |-> "Digital Nomad Visa", min_monthly_income |-> None,
      eligibility_criteria |-> <<"Check official source for requirements">>,
      extraction_method |-> "manual"],
     [visa_name |-> "Nomad Visa", min_monthly_income |-> PyInt(1200),
      eligibility_criteria |-> <<"A", "B", "C">>, application_process |-> <<"S">>,
      visa_duration |-> "1 year", path_to_residency |-> TRUE]}

Extractions ==
    {p @@ l @@ u :
        p \in Profiles,
        l \in Opt("official_links", {<<>>, <<"L">>, <<"L", "M">>}),
        u \in Opt("source_url", {UrlPool[1], UrlPool[2]})}

CriteriaLists == SeqsUpTo({"A", "B"}, MaxCriteria)
BriefInputs == Opt("eligibility_criteria", CriteriaLists)

-----------------------------------------------------------------------------
(* scrape_country, one URL: from the result of arun to the new all_data *)

LastOutcome(res) ==
    IF res.raises THEN "raise"
    ELSE IF ~res.success THEN "failed"
    ELSE IF res.extracted_content.kind = "empty" THEN "empty"
    ELSE IF res.extracted_content.kind = "invalid" THEN "invalid_json"
    ELSE IF res.extracted_content.kind = "array" THEN "not_object"
    ELSE "object"

\* runs the fallback on a failed fetch too
ScrapeResultFallbackOnFailure(res, url, data) ==
    IF res.raises THEN data
    ELSE IF res.success /\ res.extracted_content.kind # "empty"
    THEN LET extracted_data == json_loads(res.extracted_content)
         IN  IF IsRaised(extracted_data)
             THEN Append(data, manual_extraction(res.markdown, url))
             ELSE IF extracted_data.type = "dict"
             THEN Append(data, SetItem(extracted_data.value, "source_url", url))
             ELSE data
    ELSE Append(data, manual_extraction(res.markdown, url))

ScrapeResult(res, url, data) ==
    IF res.raises THEN data                               \* except Exception: continue
    ELSE IF res.success /\ res.extracted_content.kind # "empty"
    THEN LET extracted_data == json_loads(res.extracted_content)
         IN  IF IsRaised(extracted_data)                  \* except json.JSONDecodeError
             THEN Append(data, manual_extraction(res.markdown, url))
             ELSE IF extracted_data.type = "dict"
             THEN Append(data, SetItem(extracted_data.value, "source_url", url))
             ELSE data                                    \* TypeError: except Exception
    ELSE data

\* lines 126-132
ScrapeReturn(country_info, data) ==
    IF data # <<>> THEN combine_country_data(country_info, data) ELSE None

-----------------------------------------------------------------------------
(* State machine *)

NumCountries == Len(countries_data)
Country == countries_data[country_idx]

InitCommon ==
    /\ country_idx = 1
    /\ url_idx = 0
    /\ all_data = <<>>
    /\ all_results = <<>>
    /\ visa_data_json = NotWritten
    /\ result = None
    /\ last_outcome = "none"
    /\ fetched_ok = {}
    /\ contributed = <<>>
    /\ succeeded = {}
    /\ processed = <<>>
    /\ slept = FALSE

InitScrapeAll ==
    /\ entry = "scrape_all_countries"
    /\ pc = "for_country"
    /\ countries_data \in Registries
    /\ args = <<>>
    /\ InitCommon

InitCombine ==
    /\ entry = "combine_country_data"
    /\ pc = "call"
    /\ countries_data = <<CountryInfo(1, 1)>>
    /\ args \in {<<d>> : d \in SeqsUpTo(Extractions, MaxData) \ {<<>>}}
    /\ InitCommon

InitBrief ==
    /\ entry = "create_brief_eligibility"
    /\ pc = "call"
    /\ countries_data = <<CountryInfo(1, 1)>>
    /\ args \in {<<d>> : d \in BriefInputs}
    /\ InitCommon

InitManual ==
    /\ entry = "manual_extraction"
    /\ pc = "call"
    /\ countries_data = <<CountryInfo(1, 1)>>
    /\ args \in {<<m, UrlPool[1]>> : m \in Markdowns}
    /\ InitCommon

Init == InitScrapeAll \/ InitCombine \/ InitBrief \/ InitManual

\* line 216 takes the next key; line 94 starts the crawler
EnterCrawler ==
    /\ pc = "for_country"
    /\ country_idx <= NumCountries
    /\ pc' = "for_url"
    /\ url_idx' = 1
    /\ all_data' = <<>>
    /\ processed' = Append(processed, Country.key)
    /\ UNCHANGED <<entry, countries_data, country_idx, all_results, visa_data_json,
                   args, result, last_outcome, fetched_ok, contributed, succeeded, slept>>

\* line 94 raises: caught at line 228, the loop continues
EnterCrawlerRaises ==
    /\ pc = "for_country"
    /\ country_idx <= NumCountries
    /\ pc' = "for_country"
    /\ country_idx' = country_idx + 1
    /\ processed' = Append(processed, Country.key)
    /\ slept' = FALSE
    /\ UNCHANGED <<entry, countries_data, url_idx, all_data, all_results,
                   visa_data_json, args, result, last_outcome, fetched_ok, contributed,
                   succeeded>>

\* lines 95-124, one URL
ScrapeUrl ==
    /\ pc = "for_url"
    /\ url_idx <= Len(Country.urls)
    /\ \E res \in Outcomes :
         LET url == Country.urls[url_idx]
             data == ScrapeResult(res, url, all_data)
         IN  /\ all_data' = data
             /\ last_outcome' = LastOutcome(res)
             /\ fetched_ok' = IF ~res.raises /\ res.success
                              THEN fetched_ok \cup {Country.key} ELSE fetched_ok
             /\ contributed' =
                    IF Len(data) > Len(all_data)
                    THEN SetItem(contributed, Country.key,
                                 Append(Get(contributed, Country.key, <<>>), url))
                    ELSE contributed
    /\ url_idx' = url_idx + 1
    /\ UNCHANGED <<entry, pc, countries_data, country_idx, all_results,
                   visa_data_json, args, result, succeeded, processed, slept>>

\* lets an exception of scrape_country end the run
FinishCountryAborts ==
    /\ pc = "for_url"
    /\ url_idx > Len(Country.urls)
    /\ \E ret \in {ScrapeReturn(Country, all_data)} :
       LET stored == ~IsRaised(ret) /\ ret # None
       IN  /\ pc' = IF IsRaised(ret) THEN "aborted" ELSE "sleep"
           /\ country_idx' = country_idx
           /\ all_results' = IF stored THEN SetItem(all_results, Country.key, ret)
                             ELSE all_results
           /\ succeeded' = IF stored THEN succeeded \cup {Country.key} ELSE succeeded
    /\ all_data' = <<>>
    /\ url_idx' = 0
    /\ last_outcome' = "none"
    /\ slept' = FALSE
    /\ UNCHANGED <<entry, countries_data, visa_data_json, args, result, fetched_ok,
                   contributed, processed>>

\* lines 126-132, then lines 218-230 of the caller
FinishCountry ==
    /\ pc = "for_url"
    /\ url_idx > Len(Country.urls)
    /\ \E ret \in {ScrapeReturn(Country, all_data)} :
       LET stored == ~IsRaised(ret) /\ ret # None        \* if result:
       IN  /\ pc' = IF IsRaised(ret) THEN "for_country"   \* except Exception: continue
                    ELSE "sleep"
           /\ country_idx' = IF IsRaised(ret) THEN country_idx + 1 ELSE country_idx
           /\ all_results' = IF stored THEN SetItem(all_results, Country.key, ret)
                             ELSE all_results
           /\ succeeded' = IF stored THEN succeeded \cup {Country.key} ELSE succeeded
    /\ all_data' = <<>>
    /\ url_idx' = 0
    /\ last_outcome' = "none"
    /\ slept' = FALSE
    /\ UNCHANGED <<entry, countries_data, visa_data_json, args, result, fetched_ok,
                   contributed, processed>>

\* line 226
Pause ==
    /\ pc = "sleep"
    /\ pc' = "for_country"
    /\ country_idx' = country_idx + 1
    /\ slept' = TRUE
    /\ UNCHANGED <<entry, countries_data, url_idx, all_data, all_results,
                   visa_data_json, args, result, last_outcome, fetched_ok, contributed,
                   succeeded, processed>>

\* lines 232-240
SaveResults ==
    /\ pc = "for_country"
    /\ country_idx > NumCountries
    /\ visa_data_json' = all_results
    /\ pc' = "done"
    /\ UNCHANGED <<entry, countries_data, country_idx, url_idx, all_data, all_results,
                   args, result, last_outcome, fetched_ok, contributed, succeeded,
                   processed, slept>>

Returns(value) ==
    /\ pc = "call"
    /\ pc' = "returned"
    /\ result' = value
    /\ UNCHANGED <<entry, countries_data, country_idx, url_idx, all_data, all_results,
                   visa_data_json, args, last_outcome, fetched_ok, contributed,
                   succeeded, processed, slept>>

CombineCall ==
    /\ entry = "combine_country_data"
    /\ Returns(combine_country_data(countries_data[1], args[1]))

BriefCall ==
    /\ entry = "create_brief_eligibility"
    /\ Returns([value |-> create_brief_eligibility(args[1])])

ManualCall ==
    /\ entry = "manual_extraction"
    /\ Returns(manual_extraction(args[1], args[2]))

\* a run of scrape_all_countries
ScrapeNext ==
    \/ EnterCrawler
    \/ EnterCrawlerRaises
    \/ ScrapeUrl
    \/ FinishCountry
    \/ Pause
    \/ SaveResults

\* a function called on its own
CallNext ==
    \/ CombineCall
    \/ BriefCall
    \/ ManualCall

Next == ScrapeNext \/ CallNext

Spec == Init /\ [][Next]_vars

\* The run of scrape_all_countries alone.  One task, no cancellation, every
\* await returns or raises: the step that is enabled is taken.
LiveSpec == InitScrapeAll /\ [][ScrapeNext]_vars /\ WF_vars(ScrapeNext)

-----------------------------------------------------------------------------
(* Properties *)

Scraping == entry = "scrape_all_countries"
Combined == entry = "combine_country_data" /\ pc = "returned"
Briefed == entry = "create_brief_eligibility" /\ pc = "returned"
RegistryKeys == [i \in 1..NumCountries |-> countries_data[i].key]
HasValue(d, k) == k \in DOMAIN d /\ d[k] # None

\* C1: once scrape_all_countries has written its output, every country with
\* at least one successful URL fetch has a record under its key.
C1_RecordForEveryFetchedCountry ==
    (Scraping /\ pc = "done") =>
        \A k \in fetched_ok : k \in DOMAIN visa_data_json

\* C2: a country has a record (returned by scrape_country, kept in the
\* mapping, written to the file) only if an extraction was accumulated for
\* it, and never when none of its URLs was fetched successfully.
C2_RecordOnlyWithExtraction ==
    Scraping =>
        /\ succeeded \subseteq DOMAIN contributed
        /\ DOMAIN all_results \subseteq DOMAIN contributed
        /\ \A i \in 1..Len(processed) :
              processed[i] \notin fetched_ok =>
                  /\ processed[i] \notin succeeded
                  /\ processed[i] \notin DOMAIN all_results
                  /\ processed[i] \notin DOMAIN visa_data_json

C2_Witness ==
    /\ Scraping
    /\ pc = "done"
    /\ Len(processed) = 2
    /\ processed[1] \notin fetched_ok
    /\ processed[1] \notin DOMAIN visa_data_json
    /\ processed[2] \in DOMAIN visa_data_json

\* C3: every run of scrape_all_countries ends at the serialization step,
\* having begun every country in registry order, and the file then holds
\* exactly the records of the countries scrape_country returned one for.
C3_Serialized ==
    /\ pc = "done"
    /\ processed = RegistryKeys
    /\ visa_data_json = all_results
    /\ DOMAIN visa_data_json = succeeded

C3_AlwaysSerializes ==
    (Scraping /\ pc = "for_country" /\ country_idx = 1) ~> C3_Serialized

C3_Witness ==
    /\ Scraping
    /\ C3_Serialized
    /\ Len(processed) = 2
    /\ processed[1] \in DOMAIN contributed
    /\ processed[1] \notin succeeded
    /\ processed[2] \in succeeded

\* C4: a fetched page whose structured content is empty, is not valid JSON
\* or is JSON that is not an object adds an extraction tagged "manual" for
\* its URL.
C4_FallbackOnUnparsable ==
    (Scraping /\ last_outcome \in {"empty", "invalid_json", "not_object"}) =>
        /\ all_data # <<>>
        /\ Get(all_data[Len(all_data)], "extraction_method", "") = "manual"
        /\ all_data[Len(all_data)].source_url = Country.urls[url_idx - 1]

\* C5: all_sources is the source_url of every extraction that has one, in
\* input order, duplicates kept; in a run, a country's record lists exactly
\* the URLs that added an extraction, in the order they were scraped.
NthOf(S, j) == CHOOSE i \in S : Cardinality({x \in S : x <= i}) = j

C5_AllSources ==
    /\ (Combined /\ ~IsRaised(result)) =>
          LET d == args[1]
              with == {i \in 1..Len(d) : "source_url" \in DOMAIN d[i]}
          IN  /\ Len(result.all_sources) = Cardinality(with)
              /\ \A j \in 1..Cardinality(with) :
                    result.all_sources[j] = d[NthOf(with, j)].source_url
    /\ Scraping =>
          \A k \in DOMAIN all_results : all_results[k].all_sources = contributed[k]

C5_Witness ==
    /\ Combined
    /\ ~IsRaised(result)
    /\ Len(args[1]) = 2
    /\ "source_url" \in DOMAIN args[1][1]
    /\ "source_url" \in DOMAIN args[1][2]
    /\ args[1][1].source_url = args[1][2].source_url
    /\ result.all_sources = <<args[1][1].source_url, args[1][1].source_url>>

\* C6: the record's extraction-derived fields all come from one extraction
\* of the input, and no extraction of the input has a longer str().
FromExtraction(rec, e, country_info) ==
    /\ rec.visaName = IF "visa_name" \in DOMAIN e THEN e.visa_name
                      ELSE country_info.name \o " Digital Nomad Visa"
    /\ rec.minMonthlyIncome = IF "min_monthly_income" \in DOMAIN e
                              THEN e.min_monthly_income ELSE PyInt(0)
    /\ rec.fullEligibility = IF "eligibility_criteria" \in DOMAIN e
                             THEN e.eligibility_criteria ELSE <<>>
    /\ rec.briefEligibility = create_brief_eligibility(e)
    /\ rec.applicationProcess = IF "application_process" \in DOMAIN e
                                THEN e.application_process ELSE <<>>
    /\ rec.officialLink = IF "official_links" \in DOMAIN e THEN e.official_links[1]
                          ELSE IF "source_url" \in DOMAIN e THEN e.source_url
                          ELSE ""
    /\ rec.visaDuration = IF "visa_duration" \in DOMAIN e THEN e.visa_duration
                          ELSE "Check official source"
    /\ rec.pathToResidency = IF "path_to_residency" \in DOMAIN e
                             THEN e.path_to_residency ELSE FALSE

C6_PrimaryIsLongest ==
    (Combined /\ ~IsRaised(result)) =>
        \E i \in 1..Len(args[1]) :
            /\ \A j \in 1..Len(args[1]) : StrLen(args[1][i]) >= StrLen(args[1][j])
            /\ FromExtraction(result, args[1][i], countries_data[1])

C6_Witness ==
    /\ Combined
    /\ ~IsRaised(result)
    /\ Len(args[1]) = 2
    /\ StrLen(args[1][2]) > StrLen(args[1][1])
    /\ FromExtraction(result, args[1][2], countries_data[1])
    /\ ~FromExtraction(result, args[1][1], countries_data[1])

\* C7: combine_country_data completes, and officialLink is the first of the
\* primary's official_links if it has one, else its source_url, else "".
C7_OfficialLink ==
    Combined =>
        LET e == args[1][BestIndex(args[1])]
        IN  /\ ~IsRaised(result)
            /\ result.officialLink =
                   IF Get(e, "official_links", <<>>) # <<>> THEN e.official_links[1]
                   ELSE IF "source_url" \in DOMAIN e THEN e.source_url
                   ELSE ""

\* C8: minMonthlyIncome is the primary's income, and 0 when the primary has
\* no income value (as a manual extraction that found no amount).
C8_IncomeDefaultsToZero ==
    /\ (Combined /\ ~IsRaised(result)) =>
          LET e == args[1][BestIndex(args[1])]
          IN  result.minMonthlyIncome =
                  IF HasValue(e, "min_monthly_income") THEN e.min_monthly_income
                  ELSE PyInt(0)
    /\ Scraping => \A k \in DOMAIN all_results : all_results[k].minMonthlyIncome # None

\* C9: briefEligibility is the first two entries of the criteria (or the only
\* one) joined with ". " plus a final ".", and the fixed sentence exactly
\* when the criteria are empty or absent.
BriefOf(criteria, brief) ==
    /\ (criteria = <<>>) <=> (brief = DefaultBrief)
    /\ Len(criteria) = 1 => brief = criteria[1] \o "."
    /\ Len(criteria) >= 2 => brief = criteria[1] \o ". " \o criteria[2] \o "."

C9_BriefEligibility ==
    /\ Briefed => BriefOf(Get(args[1], "eligibility_criteria", <<>>), result.value)
    /\ (Combined /\ ~IsRaised(result)) =>
          BriefOf(result.fullEligibility, result.briefEligibility)

C9_Witness ==
    /\ Briefed
    /\ args[1] = [eligibility_criteria |-> <<"A", "B", "A">>]
    /\ result.value = "A. B."

\* C10: countries are begun in registry order, and whenever the next
\* country is about to begin, the pause has run since the previous one
\* ended.
C10_PauseBetweenCountries ==
    Scraping =>
        /\ processed = SubSeq(RegistryKeys, 1, Len(processed))
        /\ (pc = "for_country" /\ 1 < country_idx /\ country_idx <= NumCountries)
              => slept

====
